---- MODULE Spec2Model ----
(***************************************************************************)
(* Shahnameh text generation, character level (src/unnamed/part_000) and   *)
(* word level (src/.ipynb_checkpoints/08-Shahnameh_Generation_Word_Level-  *)
(* checkpoint.ipynb).                                                      *)
(*                                                                         *)
(* Four parts of the notebooks are modelled:                               *)
(*   - the tf.data windowing pipeline (chunk, split, cache / shuffle,      *)
(*     batch) that model.fit iterates once per epoch (Spec, FairSpec);     *)
(*   - the generation loop around One_Step.generate_one_step, with the     *)
(*     literals of the notebooks' kind (GenSpec, FairGenSpec) and with any *)
(*     temperature and step count (UncheckedSpec);                         *)
(*   - two generation loops on one trained model, their steps in any       *)
(*     order (TwoLoopsSpec);                                               *)
(*   - the preprocessing cells: the file read and decoded, the vocabulary  *)
(*     built from the text, the text turned into ids and ids turned back   *)
(*     into text (PrepSpec).                                               *)
(* The notebooks fix MAX_SEQ, BATCH_SIZE, SHUFFLE_BUFFER, the temperature  *)
(* and the number of generation steps as literals; here they are drawn     *)
(* from small ranges so that the properties are checked for every value    *)
(* in the range.                                                           *)
(***************************************************************************)
EXTENDS Integers, Sequences, FiniteSets, TLC

VARIABLES
    mode,            \* "char" (part_000) or "word" (08-...Word_Level)
    text_to_ids,     \* the token stream: the corpus as one sequence of ids
    MAX_SEQ,         \* window length W
    BATCH_SIZE,      \* batch size B
    SHUFFLE_BUFFER,  \* shuffle buffer size S (word level only; 0 at char level)
    epoch,           \* passes over the dataset begun by model.fit
    it,              \* the dataset iterator: "none", "running", "end"
    pos,             \* windows pulled from the chunk/split stage in this pass
    buffer,          \* the shuffle buffer (word level)
    cur,             \* the batch being assembled
    batches,         \* the batches emitted in this pass
    cache,           \* dataset.cache() of the character level pipeline
    cached,          \* the cache is complete (a first pass reached the end)
    pulled,          \* history: windows pulled from chunk/split, this pass
    shuffled,        \* history: windows emitted by the shuffle buffer, this pass
    first,           \* history: windows in the batches of the first pass
    get_vocabulary,  \* the vocabulary list: id i is get_vocabulary[i + 1]
    temperature,     \* One_Step.temperature, a rational <<numerator, denominator>>
    prediction_mask, \* One_Step.prediction_mask, one entry per id
    pc,              \* the generation cell: "Idle", "Stepping", "Done"
    runs,            \* generation runs begun
    step_count,      \* the N of `for n in range(N)`
    n,               \* iterations of the loop body completed in this run
    next_char,       \* the fragment the next step encodes
    states,          \* the hidden state carried between steps
    result,          \* the list of fragments; after the join, the text
    predicted,       \* the logits handed to tf.random.categorical, last step
    raised,          \* a step raised: the cell stopped with an exception
    seed,            \* history: the seed text of this run
    drawn,           \* history: the ids drawn in this run, in order
    file,            \* the bytes of the corpus file
    text,            \* the corpus text
    MAX_TOKEN,       \* max_tokens of the TextVectorization layer (word level)
    prep,            \* the preprocessing cells run so far: "none", "start",
                     \* "read" (or "error"), "stripped", "built", "encoded",
                     \* "decoded", "reencoded"
    built,           \* history: the vocabulary lists built, in order
    decoded,         \* ids_to_text of the ids of the text
    reencoded,       \* the ids of the decoded text
    weights,         \* the trained weights of the model
    run              \* two generation loops side by side: the variables of each

pipeVars == <<mode, text_to_ids, MAX_SEQ, BATCH_SIZE, SHUFFLE_BUFFER, epoch, it,
              pos, buffer, cur, batches, cache, cached, pulled, shuffled, first>>

genVars == <<get_vocabulary, temperature, prediction_mask, pc, runs, step_count, n,
             next_char, states, result, predicted, raised, seed, drawn>>

prepVars == <<file, text, MAX_TOKEN, prep, built, decoded, reencoded>>

runVars == <<weights, run>>

vars == <<pipeVars, genVars, prepVars, runVars>>

(***************************************************************************)
(* Bounds of the model.                                                    *)
(***************************************************************************)
MaxStream == 6
MaxW == 2
MaxB == 2
MaxS == 2
MaxEpochs == 2
MaxSteps == 2
MaxRuns == 2
MaxText == 3      \* characters of a corpus text
MaxCap == 5       \* largest max_tokens of the TextVectorization layer
MaxBuilds == 2    \* times the vocabulary is built from one text

StreamIds == {1, 2}

RECURSIVE SeqsUpTo(_, _)
SeqsUpTo(S, len) ==
    IF len = 0 THEN {<<>>}
    ELSE LET shorter == SeqsUpTo(S, len - 1)
         IN  shorter \cup {Append(s, x) : s \in {t \in shorter : Len(t) = len - 1}, x \in S}

Streams == SeqsUpTo(StreamIds, MaxStream)

Range(s) == {s[i] : i \in 1..Len(s)}

RECURSIVE Flatten(_)
Flatten(ss) == IF ss = <<>> THEN <<>> ELSE Head(ss) \o Flatten(Tail(ss))

Count(x, s) == Cardinality({i \in 1..Len(s) : s[i] = x})

IsPermutation(s, t) ==
    /\ Len(s) = Len(t)
    /\ \A x \in Range(s) \cup Range(t) : Count(x, s) = Count(x, t)

RemoveAt(s, i) == SubSeq(s, 1, i - 1) \o SubSeq(s, i + 1, Len(s))

(***************************************************************************)
(* tf.data.Dataset.batch(size, drop_remainder) over a finite dataset: the  *)
(* elements in consecutive groups of size; a last group of fewer is        *)
(* dropped when drop_remainder is set and emitted otherwise.               *)
(***************************************************************************)
RECURSIVE DatasetBatch(_, _, _)
DatasetBatch(s, size, drop_remainder) ==
    IF Len(s) >= size
    THEN <<SubSeq(s, 1, size)>>
             \o DatasetBatch(SubSeq(s, size + 1, Len(s)), size, drop_remainder)
    ELSE IF Len(s) > 0 /\ ~drop_remainder THEN <<s>> ELSE <<>>

\* seq.batch(MAX_SEQ + 1, drop_remainder=True): the blocks of W+1 ids.
ChunksMutStride(ids, W) == DatasetBatch(ids, W, TRUE)
ChunksMutKeep(ids, W) == DatasetBatch(ids, W + 1, FALSE)
Chunks(ids, W) == DatasetBatch(ids, W + 1, TRUE)

\* create_input_target (character level): inputs = ids[:-1], target = ids[1:].
create_input_target_mut(ids) ==
    <<SubSeq(ids, 1, Len(ids) - 1), SubSeq(ids, 1, Len(ids) - 1)>>
create_input_target(ids) ==
    <<SubSeq(ids, 1, Len(ids) - 1), SubSeq(ids, 2, Len(ids))>>

\* split_input_target (word level): chunk[:-1], chunk[1:].
split_input_target(chunk) ==
    <<SubSeq(chunk, 1, Len(chunk) - 1), SubSeq(chunk, 2, Len(chunk))>>

SplitWindow(m, chunk) ==
    IF m = "char" THEN create_input_target(chunk) ELSE split_input_target(chunk)

\* The windows of the stream: one per block of W+1 ids.
NumWindows == Len(Chunks(text_to_ids, MAX_SEQ))

\* The k-th element the stage before batching/shuffling yields in this pass,
\* dataset.map(create_input_target) / seq.map(split_input_target) of the k-th
\* block; the character level reads its cache once a first pass has filled it.
Upstream(k) ==
    IF mode = "char" /\ cached THEN cache[k]
    ELSE SplitWindow(mode, Chunks(text_to_ids, MAX_SEQ)[k])

\* drop_remainder of the training batch: True at the character level
\* (part_000 line 506), not given, so False, at the word level (line 328).
DropRemainderMut(m) == TRUE
DropRemainder(m) == m = "char"

\* dataset.batch(BATCH_SIZE, ...) receiving one more window.  The prefetch
\* that follows it only reads ahead: it keeps the batches and their order.
BatchPush(w) ==
    IF Len(cur) + 1 = BATCH_SIZE
    THEN /\ batches' = Append(batches, Append(cur, w))
         /\ cur' = <<>>
    ELSE /\ cur' = Append(cur, w)
         /\ UNCHANGED batches

\* The hidden state before any step: None.
None == <<"None">>

\* The generation cell has not run; no pass of the dataset has begun.
GenIdle ==
    /\ get_vocabulary = <<>>
    /\ temperature = <<1, 1>>
    /\ prediction_mask = <<>>
    /\ pc = "Idle"
    /\ runs = 0
    /\ step_count = 0
    /\ n = 0
    /\ next_char = <<>>
    /\ states = None
    /\ result = <<>>
    /\ predicted = <<>>
    /\ raised = FALSE
    /\ seed = <<>>
    /\ drawn = <<>>

\* No preprocessing cell is being followed.
PrepIdle ==
    /\ file = <<>>
    /\ text = <<>>
    /\ MAX_TOKEN = 2
    /\ prep = "none"
    /\ built = <<>>
    /\ decoded = <<>>
    /\ reencoded = <<>>

\* No two loops side by side.
RunIdle ==
    /\ weights = <<>>
    /\ run = <<>>

PipeIdle ==
    /\ text_to_ids = <<>>
    /\ MAX_SEQ = 1
    /\ BATCH_SIZE = 1
    /\ SHUFFLE_BUFFER = 0
    /\ epoch = 0
    /\ it = "none"
    /\ pos = 0
    /\ buffer = <<>>
    /\ cur = <<>>
    /\ batches = <<>>
    /\ cache = <<>>
    /\ cached = FALSE
    /\ pulled = <<>>
    /\ shuffled = <<>>
    /\ first = <<>>

PipeInit ==
    /\ mode \in {"char", "word"}
    /\ text_to_ids \in Streams
    /\ MAX_SEQ \in 1..MaxW
    /\ BATCH_SIZE \in 1..MaxB
    /\ SHUFFLE_BUFFER \in (IF mode = "word" THEN 1..MaxS ELSE {0})
    /\ epoch = 0
    /\ it = "none"
    /\ pos = 0
    /\ buffer = <<>>
    /\ cur = <<>>
    /\ batches = <<>>
    /\ cache = <<>>
    /\ cached = FALSE
    /\ pulled = <<>>
    /\ shuffled = <<>>
    /\ first = <<>>
    /\ GenIdle
    /\ PrepIdle
    /\ RunIdle

\* model.fit(dataset, epochs=...) begins a pass: a new iterator over dataset.
StartPass ==
    /\ it \in {"none", "end"}
    /\ epoch < MaxEpochs
    /\ epoch' = epoch + 1
    /\ it' = "running"
    /\ pos' = 0
    /\ buffer' = <<>>
    /\ cur' = <<>>
    /\ batches' = <<>>
    /\ pulled' = <<>>
    /\ shuffled' = <<>>
    /\ UNCHANGED genVars
    /\ UNCHANGED prepVars
    /\ UNCHANGED runVars
    /\ UNCHANGED <<mode, text_to_ids, MAX_SEQ, BATCH_SIZE, SHUFFLE_BUFFER,
                   cache, cached, first>>

\* dataset.shuffle(SHUFFLE_BUFFER) pulls the next window into a free slot.
ShuffleFill ==
    /\ it = "running"
    /\ mode = "word"
    /\ Len(buffer) < SHUFFLE_BUFFER
    /\ pos < NumWindows
    /\ buffer' = Append(buffer, Upstream(pos + 1))
    /\ pos' = pos + 1
    /\ pulled' = Append(pulled, Upstream(pos + 1))
    /\ UNCHANGED genVars
    /\ UNCHANGED prepVars
    /\ UNCHANGED runVars
    /\ UNCHANGED <<mode, text_to_ids, MAX_SEQ, BATCH_SIZE, SHUFFLE_BUFFER, epoch,
                   it, cur, batches, cache, cached, shuffled, first>>

\* dataset.shuffle(SHUFFLE_BUFFER) emits a window chosen at random from the
\* buffer (once the buffer is full, or the input is exhausted); the batch
\* stage receives it.
ShuffleNext ==
    /\ it = "running"
    /\ mode = "word"
    /\ buffer # <<>>
    /\ Len(buffer) = SHUFFLE_BUFFER \/ pos = NumWindows
    /\ \E i \in 1..Len(buffer) :
          /\ buffer' = RemoveAt(buffer, i)
          /\ shuffled' = Append(shuffled, buffer[i])
          /\ BatchPush(buffer[i])
    /\ UNCHANGED genVars
    /\ UNCHANGED prepVars
    /\ UNCHANGED runVars
    /\ UNCHANGED <<mode, text_to_ids, MAX_SEQ, BATCH_SIZE, SHUFFLE_BUFFER, epoch,
                   it, pos, cache, cached, pulled, first>>

\* dataset.cache() (character level) yields the next window, in stream order,
\* remembering it during the first pass; the batch stage receives it.
CacheNext ==
    /\ it = "running"
    /\ mode = "char"
    /\ pos < NumWindows
    /\ pos' = pos + 1
    /\ cache' = IF cached THEN cache ELSE Append(cache, Upstream(pos + 1))
    /\ pulled' = Append(pulled, Upstream(pos + 1))
    /\ BatchPush(Upstream(pos + 1))
    /\ UNCHANGED genVars
    /\ UNCHANGED prepVars
    /\ UNCHANGED runVars
    /\ UNCHANGED <<mode, text_to_ids, MAX_SEQ, BATCH_SIZE, SHUFFLE_BUFFER, epoch,
                   it, buffer, cached, shuffled, first>>

\* The input is exhausted: the batch stage drops the partial batch
\* (drop_remainder=True) or emits it, and the iterator ends.
EndOfSequence ==
    /\ it = "running"
    /\ pos = NumWindows
    /\ buffer = <<>>
    /\ it' = "end"
    /\ batches' = IF cur # <<>> /\ ~DropRemainder(mode)
                  THEN Append(batches, cur) ELSE batches
    /\ cur' = <<>>
    /\ cached' = (cached \/ mode = "char")
    /\ first' = IF epoch = 1 THEN Flatten(batches') ELSE first
    /\ UNCHANGED genVars
    /\ UNCHANGED prepVars
    /\ UNCHANGED runVars
    /\ UNCHANGED <<mode, text_to_ids, MAX_SEQ, BATCH_SIZE, SHUFFLE_BUFFER, epoch,
                   pos, buffer, cache, pulled, shuffled>>

(***************************************************************************)
(* Text.  A string is a sequence of characters, a character a string of    *)
(* length one; a token is a string.                                        *)
(***************************************************************************)
ZWNJ == "^"    \* stands for U+200C
UNK == <<"[", "U", "N", "K", "]">>
NEWLINE == <<"<", "n", "e", "w", "l", "i", "n", "e", ">">>

IsPrefix(s, t) == Len(s) <= Len(t) /\ SubSeq(t, 1, Len(s)) = s

\* tf.strings.regex_replace(input, pattern, rewrite) for a literal, non-empty
\* pattern: every non-overlapping occurrence, leftmost first.
RECURSIVE regex_replace(_, _, _)
regex_replace(str, pattern, rewrite) ==
    IF str = <<>> THEN <<>>
    ELSE IF IsPrefix(pattern, str)
         THEN rewrite \o regex_replace(SubSeq(str, Len(pattern) + 1, Len(str)),
                                       pattern, rewrite)
         ELSE <<Head(str)>> \o regex_replace(Tail(str), pattern, rewrite)

\* custom_standardization (word level).
custom_standardization_fused(str) ==
    LET t1 == regex_replace(str, <<ZWNJ>>, <<>>)
    IN  regex_replace(t1, <<"\n">>, <<" ">> \o NEWLINE \o <<" ">>)
custom_standardization(str) ==
    LET t1 == regex_replace(str, <<ZWNJ>>, <<>>)
        t2 == regex_replace(t1, <<"|">>, <<" ", "|", " ">>)
    IN  regex_replace(t2, <<"\n">>, <<" ">> \o NEWLINE \o <<" ">>)

IsSpace(c) == c \in {" ", "\n"}

\* TextVectorization's default split: on runs of whitespace, no empty token.
RECURSIVE SplitWhitespace(_, _)
SplitWhitespace(str, tok) ==
    IF str = <<>> THEN (IF tok = <<>> THEN <<>> ELSE <<tok>>)
    ELSE IF IsSpace(Head(str))
         THEN (IF tok = <<>> THEN <<>> ELSE <<tok>>) \o SplitWhitespace(Tail(str), <<>>)
         ELSE SplitWhitespace(Tail(str), Append(tok, Head(str)))

\* The id of a token: its place in the vocabulary list, the unknown id when it
\* has none (StringLookup at the character level, TextVectorization's lookup
\* at the word level).
TokenToIdPastEnd(vocab, tok, oov) ==
    IF \E i \in 1..Len(vocab) : vocab[i] = tok
    THEN (CHOOSE i \in 1..Len(vocab) : vocab[i] = tok) - 1
    ELSE Len(vocab)
TokenToId(vocab, tok, oov) ==
    IF \E i \in 1..Len(vocab) : vocab[i] = tok
    THEN (CHOOSE i \in 1..Len(vocab) : vocab[i] = tok) - 1
    ELSE oov

\* char_to_ids: StringLookup(vocabulary=vocabulary, mask_token=None); '[UNK]'
\* is entry 0 of its vocabulary list.
char_to_ids(vocab, tokens) == [k \in 1..Len(tokens) |-> TokenToId(vocab, tokens[k], 0)]

\* ids_to_char: StringLookup(..., invert=True).
ids_to_char(vocab, id) == vocab[id + 1]

\* tf.strings.unicode_split(inputs, 'UTF-8'): the characters, each one a string.
unicode_split(inputs) == [k \in 1..Len(inputs) |-> <<inputs[k]>>]

\* text_vec (TextVectorization, standardize=custom_standardization,
\* output_mode="int"): '' is entry 0 and '[UNK]' entry 1 of its vocabulary.
text_vec(vocab, str) ==
    LET tokens == SplitWhitespace(custom_standardization(str), <<>>)
    IN  [k \in 1..Len(tokens) |-> TokenToId(vocab, tokens[k], 1)]

\* tf.strings.join / tf.strings.reduce_join: the strings, separator between.
RECURSIVE strings_join_trailing(_, _)
strings_join_trailing(strs, separator) ==
    IF strs = <<>> THEN <<>>
    ELSE strs[1] \o separator \o strings_join_trailing(Tail(strs), separator)
RECURSIVE strings_join(_, _)
strings_join(strs, separator) ==
    IF strs = <<>> THEN <<>>
    ELSE IF Len(strs) = 1 THEN strs[1]
    ELSE strs[1] \o separator \o strings_join(Tail(strs), separator)

\* ids_to_text (word level).
ids_to_text(vocab, ids) ==
    LET words == [k \in 1..Len(ids) |-> regex_replace(vocab[ids[k] + 1], NEWLINE, <<"\n">>)]
    IN  strings_join(words, <<" ">>)

\* The vocabulary lists of the two models: sorted(set(text)) behind '[UNK]' at
\* the character level; '', '[UNK]', then the tokens by frequency at the word
\* level.
Vocabulary(m) ==
    IF m = "char" THEN <<UNK, <<"\n">>, <<"a">>, <<"b">>>>
    ELSE <<<<>>, UNK, <<"|">>, NEWLINE, <<"a">>>>

Seeds(m) ==
    IF m = "char" THEN {<<>>, <<"a">>, <<"z", "b">>}
    ELSE {<<>>, <<" ", "a", " ">>, <<"z", " ", "a">>}

(***************************************************************************)
(* Scores.  A logit is a rational <<numerator, denominator>> with a        *)
(* positive denominator, or minus infinity, written <<-1, 0>>, plus        *)
(* infinity, written <<1, 0>>, or not a number, written <<0, 0>>.          *)
(***************************************************************************)
NegInf == <<-1, 0>>
PosInf == <<1, 0>>
NaN == <<0, 0>>
Zero == <<0, 1>>

Temperatures == {<<1, 2>>, <<1, 1>>, <<2, 1>>}

\* One_Step takes any number as its temperature, and range any integer.
AnyTemperatures == {<<-1, 1>>, <<0, 1>>, <<1, 1>>}
AnyStepCounts == (-1)..MaxSteps
Scores == {-1, 2}

Ids(vocab) == 0..(Len(vocab) - 1)

\* predicted / self.temperature, a float division: by zero it gives an
\* infinity of the sign of the score, or not a number for a score of zero.
DivideInto(x, t) ==
    IF x > 0 THEN <<t[1], t[2] * x>>
    ELSE IF x < 0 THEN <<0 - t[1], t[2] * (0 - x)>>
    ELSE PosInf
Divide(x, t) ==
    IF t[1] > 0 THEN <<x * t[2], t[1]>>
    ELSE IF t[1] < 0 THEN <<(0 - x) * t[2], 0 - t[1]>>
    ELSE IF x > 0 THEN PosInf
    ELSE IF x < 0 THEN NegInf
    ELSE NaN

\* predicted + self.prediction_mask
Add(a, b) ==
    IF a = NaN \/ b = NaN \/ {a, b} = {PosInf, NegInf} THEN NaN
    ELSE IF a = PosInf \/ b = PosInf THEN PosInf
    ELSE IF a = NegInf \/ b = NegInf THEN NegInf
    ELSE <<a[1] * b[2] + b[1] * a[2], a[2] * b[2]>>

\* tf.random.categorical(logits, num_samples=1): the ids it can return, those
\* of non-zero weight exp(logit).  With a logit that is plus infinity or not
\* a number, or with no finite logit, the weights are not a distribution and
\* the id returned is not specified: any id.
Categorical(logits) ==
    IF \/ \E i \in DOMAIN logits : logits[i] \in {PosInf, NaN}
       \/ \A i \in DOMAIN logits : logits[i] = NegInf
    THEN DOMAIN logits
    ELSE {i \in DOMAIN logits : logits[i] # NegInf}

\* One_Step.__init__: skip_ids, the ids of '[UNK]'.
SkipIdsMut(m, vocab) == {0}
SkipIds(m, vocab) ==
    IF m = "char" THEN Range(char_to_ids(vocab, <<UNK>>))
    ELSE {(CHOOSE i \in 1..Len(vocab) : vocab[i] = UNK) - 1}

\* One_Step.__init__: tf.sparse.to_dense of -inf at skip_ids.
PredictionMaskUpTo(m, vocab) ==
    [i \in Ids(vocab) |->
        IF \E k \in SkipIds(m, vocab) : i <= k THEN NegInf ELSE Zero]
PredictionMask(m, vocab) ==
    [i \in Ids(vocab) |-> IF i \in SkipIds(m, vocab) THEN NegInf ELSE Zero]

\* generate_one_step: the ids of the fragment.
Encode(m, vocab, inputs) ==
    IF m = "char" THEN char_to_ids(vocab, unicode_split(inputs))
    ELSE text_vec(vocab, inputs)

\* The fragment a step returns for the id it drew: ids_to_char(predicted_id)
\* at the character level, ids_to_text(next_char) at the word level.
Decode(m, vocab, id) ==
    IF m = "char" THEN ids_to_char(vocab, id) ELSE ids_to_text(vocab, <<id>>)

\* The hidden state is None, or the ids the GRU has consumed.
Consumed(st) == IF st = None THEN <<>> ELSE st[2]

\* MyModel.call(inputs, states, return_state=True): the new state.
ForwardFresh(ids, st) == <<"gru", ids>>
Forward(ids, st) == <<"gru", Consumed(st) \o ids>>

\* The loop of the generation cell repeats while n < step_count.
LoopContinuesMut(k, N) == k <= N
LoopContinuesShort(k, N) == k < N - 1
LoopContinues(k, N) == k < N

\* result.append(next_char)
ResultAppendMut(res, fragment) == <<fragment>> \o res
ResultAppend(res, fragment) == Append(res, fragment)

\* tf.strings.join(result) / tf.strings.join(result, separator=' ').
JoinSeparatorNone(m) == <<>>
JoinSeparator(m) == IF m = "char" THEN <<>> ELSE <<" ">>

\* one_step_model = One_Step(model, ..., temperature=...) has been built.
GenInit ==
    /\ mode \in {"char", "word"}
    /\ PipeIdle
    /\ PrepIdle
    /\ RunIdle
    /\ get_vocabulary = Vocabulary(mode)
    /\ temperature \in Temperatures
    /\ prediction_mask = PredictionMask(mode, get_vocabulary)
    /\ pc = "Idle"
    /\ runs = 0
    /\ step_count = 0
    /\ n = 0
    /\ next_char = <<>>
    /\ states = None
    /\ result = <<>>
    /\ predicted = <<>>
    /\ raised = FALSE
    /\ seed = <<>>
    /\ drawn = <<>>

\* The generation cell begins: states = None, next_char = the seed,
\* result = [next_char], and the loop is entered.
Start ==
    /\ pc = "Idle"
    /\ runs < MaxRuns
    /\ \E s \in Seeds(mode), N \in 0..MaxSteps :
          /\ seed' = s
          /\ next_char' = s
          /\ result' = <<s>>
          /\ step_count' = N
    /\ states' = None
    /\ n' = 0
    /\ drawn' = <<>>
    /\ predicted' = <<>>
    /\ raised' = FALSE
    /\ runs' = runs + 1
    /\ pc' = "Stepping"
    /\ UNCHANGED <<get_vocabulary, temperature, prediction_mask>>
    /\ UNCHANGED pipeVars
    /\ UNCHANGED prepVars
    /\ UNCHANGED runVars

\* The same cell with any literal in range(...).
StartUnchecked ==
    /\ pc = "Idle"
    /\ runs < MaxRuns
    /\ \E s \in Seeds(mode), N \in AnyStepCounts :
          /\ seed' = s
          /\ next_char' = s
          /\ result' = <<s>>
          /\ step_count' = N
    /\ states' = None
    /\ n' = 0
    /\ drawn' = <<>>
    /\ predicted' = <<>>
    /\ raised' = FALSE
    /\ runs' = runs + 1
    /\ pc' = "Stepping"
    /\ UNCHANGED <<get_vocabulary, temperature, prediction_mask>>
    /\ UNCHANGED pipeVars
    /\ UNCHANGED prepVars
    /\ UNCHANGED runVars

\* One iteration of the loop: generate_one_step, then result.append.  A
\* fragment with no id gives the model an empty sequence, and taking its last
\* position raises.
Step ==
    /\ pc = "Stepping"
    /\ ~raised
    /\ LoopContinues(n, step_count)
    /\ LET ids == Encode(mode, get_vocabulary, next_char)
       IN  IF ids = <<>>
           THEN /\ raised' = TRUE
                /\ UNCHANGED <<n, next_char, states, result, predicted, drawn>>
           ELSE \E scores \in [Ids(get_vocabulary) -> Scores] :
                  /\ predicted' = [i \in Ids(get_vocabulary) |->
                                     Add(Divide(scores[i], temperature),
                                         prediction_mask[i])]
                  /\ \E id \in Categorical(predicted') :
                        /\ drawn' = Append(drawn, id)
                        /\ next_char' = Decode(mode, get_vocabulary, id)
                        /\ result' = ResultAppend(result, Decode(mode, get_vocabulary, id))
                  /\ states' = Forward(ids, states)
                  /\ n' = n + 1
                  /\ UNCHANGED raised
    /\ UNCHANGED <<get_vocabulary, temperature, prediction_mask, pc, runs,
                   step_count, seed>>
    /\ UNCHANGED pipeVars
    /\ UNCHANGED prepVars
    /\ UNCHANGED runVars

\* range(N) is exhausted: the loop is left.
LoopExit ==
    /\ pc = "Stepping"
    /\ ~raised
    /\ ~LoopContinues(n, step_count)
    /\ pc' = "Done"
    /\ UNCHANGED <<get_vocabulary, temperature, prediction_mask, runs, step_count,
                   n, next_char, states, result, predicted, raised, seed, drawn>>
    /\ UNCHANGED pipeVars
    /\ UNCHANGED prepVars
    /\ UNCHANGED runVars

\* result = tf.strings.join(result, ...) and the cell ends.
Result ==
    /\ pc = "Done"
    /\ result' = strings_join(result, JoinSeparator(mode))
    /\ pc' = "Idle"
    /\ UNCHANGED <<get_vocabulary, temperature, prediction_mask, runs, step_count,
                   n, next_char, states, predicted, raised, seed, drawn>>
    /\ UNCHANGED pipeVars
    /\ UNCHANGED prepVars
    /\ UNCHANGED runVars

GenNext == Start \/ Step \/ LoopExit \/ Result

GenSpec == GenInit /\ [][GenNext]_vars

\* The cell is run to its end: the for loop is left once range(N) is
\* exhausted.
FairGenSpec == GenInit /\ [][GenNext]_vars /\ WF_vars(LoopExit)

\* One_Step built with any temperature (its __init__ stores the argument as
\* it is) and the generation cell run with any step count.
UncheckedInit ==
    /\ mode \in {"char", "word"}
    /\ PipeIdle
    /\ PrepIdle
    /\ RunIdle
    /\ get_vocabulary = Vocabulary(mode)
    /\ temperature \in AnyTemperatures
    /\ prediction_mask = PredictionMask(mode, get_vocabulary)
    /\ pc = "Idle"
    /\ runs = 0
    /\ step_count = 0
    /\ n = 0
    /\ next_char = <<>>
    /\ states = None
    /\ result = <<>>
    /\ predicted = <<>>
    /\ raised = FALSE
    /\ seed = <<>>
    /\ drawn = <<>>

UncheckedNext == StartUnchecked \/ Step \/ LoopExit \/ Result

UncheckedSpec == UncheckedInit /\ [][UncheckedNext]_vars

PassStep == ShuffleFill \/ ShuffleNext \/ CacheNext \/ EndOfSequence

Next == StartPass \/ ShuffleFill \/ ShuffleNext \/ CacheNext \/ EndOfSequence

Spec == PipeInit /\ [][Next]_vars

\* model.fit iterates the dataset to its end in every epoch.
FairSpec == PipeInit /\ [][Next]_vars /\ WF_vars(PassStep)

(***************************************************************************)
(* Two generation loops side by side.  Each loop has its own states,       *)
(* next_char and result, as two copies of the generation cell have; both   *)
(* call the same one_step_model and through it the same trained model.     *)
(* The steps of the two loops are taken in any order.                      *)
(***************************************************************************)
RunIds == {1, 2}

LoopLengths == {0, 1, 2}

LoopSeeds(m) == Seeds(m) \ {<<>>}

\* The trained weights: here, which id the model favours after no input.
Weights(m) ==
    {[i \in Ids(Vocabulary(m)) |-> IF i = k THEN 2 ELSE -1] : k \in {1, 2}}

\* MyModel.call(...)[:, -1, :]: the scores at the last position, a function
\* of the weights and of all the ids consumed up to it.
Logits(w, consumed) ==
    [i \in DOMAIN w |-> w[(i + Len(consumed)) % Cardinality(DOMAIN w)]]

\* The variables of a loop that has not begun.
NoRun ==
    [pc |-> "Idle", begun |-> FALSE, seed |-> <<>>, step_count |-> 0, n |-> 0,
     next_char |-> <<>>, states |-> None, result |-> <<>>, predicted |-> <<>>,
     drawn |-> <<>>, raised |-> FALSE]

\* The hidden state and the fragment a step of loop r hands to
\* generate_one_step: the loop's own.
StatesOfFirst(r) == run[1].states
StatesOf(r) == run[r].states

FragmentOfFirst(r) == run[1].next_char
FragmentOf(r) == run[r].next_char

TwoLoopsInit ==
    /\ mode \in {"char", "word"}
    /\ PipeIdle
    /\ PrepIdle
    /\ get_vocabulary = Vocabulary(mode)
    /\ temperature \in Temperatures
    /\ prediction_mask = PredictionMask(mode, get_vocabulary)
    /\ pc = "Idle"
    /\ runs = 0
    /\ step_count = 0
    /\ n = 0
    /\ next_char = <<>>
    /\ states = None
    /\ result = <<>>
    /\ predicted = <<>>
    /\ raised = FALSE
    /\ seed = <<>>
    /\ drawn = <<>>
    /\ weights \in Weights(mode)
    /\ run = [r \in RunIds |-> NoRun]

\* Loop r begins: states = None, next_char = the seed, result = [next_char].
StartLoop(r) ==
    /\ ~run[r].begun
    /\ \E s \in LoopSeeds(mode), N \in LoopLengths :
          run' = [run EXCEPT ![r] =
                     [pc |-> "Stepping", begun |-> TRUE, seed |-> s, step_count |-> N,
                      n |-> 0, next_char |-> s, states |-> None, result |-> <<s>>,
                      predicted |-> <<>>, drawn |-> <<>>, raised |-> FALSE]]
    /\ UNCHANGED <<weights, pipeVars, genVars, prepVars>>

\* One iteration of loop r: generate_one_step, then result.append.
StepLoop(r) ==
    /\ run[r].pc = "Stepping"
    /\ ~run[r].raised
    /\ LoopContinues(run[r].n, run[r].step_count)
    /\ LET ids == Encode(mode, get_vocabulary, FragmentOf(r))
           new_states == Forward(ids, StatesOf(r))
           logits == Logits(weights, Consumed(new_states))
           scaled == [i \in Ids(get_vocabulary) |->
                        Add(Divide(logits[i], temperature), prediction_mask[i])]
       IN  IF ids = <<>>
           THEN run' = [run EXCEPT ![r].raised = TRUE]
           ELSE \E id \in Categorical(scaled) :
                   run' = [run EXCEPT
                              ![r].predicted = scaled,
                              ![r].drawn = Append(@, id),
                              ![r].next_char = Decode(mode, get_vocabulary, id),
                              ![r].result = ResultAppend(@, Decode(mode, get_vocabulary, id)),
                              ![r].states = new_states,
                              ![r].n = @ + 1]
    /\ UNCHANGED <<weights, pipeVars, genVars, prepVars>>

\* range(N) of loop r is exhausted.
ExitLoop(r) ==
    /\ run[r].pc = "Stepping"
    /\ ~run[r].raised
    /\ ~LoopContinues(run[r].n, run[r].step_count)
    /\ run' = [run EXCEPT ![r].pc = "Done"]
    /\ UNCHANGED <<weights, pipeVars, genVars, prepVars>>

\* result = tf.strings.join(result, ...) of loop r.
JoinLoop(r) ==
    /\ run[r].pc = "Done"
    /\ run' = [run EXCEPT ![r].pc = "Idle",
                          ![r].result = strings_join(@, JoinSeparator(mode))]
    /\ UNCHANGED <<weights, pipeVars, genVars, prepVars>>

StartEither == \E r \in RunIds : StartLoop(r)
StepEither == \E r \in RunIds : StepLoop(r)
ExitEither == \E r \in RunIds : ExitLoop(r)
JoinEither == \E r \in RunIds : JoinLoop(r)

TwoLoopsNext == StartEither \/ StepEither \/ ExitEither \/ JoinEither

TwoLoopsSpec == TwoLoopsInit /\ [][TwoLoopsNext]_vars

(***************************************************************************)
(* Preprocessing: the text is read, the vocabulary is built from it, the   *)
(* text is turned into ids, and ids are turned back into text.             *)
(***************************************************************************)
Alphabet == {"a", "b", " ", "\n", "|", ZWNJ}

\* The texts: every short text over the alphabet and, at the word level, a
\* text that spells the newline sentinel itself ('a<newline>').
SpelledSentinel == <<"a">> \o NEWLINE

Texts(m) ==
    IF m = "word" THEN SeqsUpTo(Alphabet, MaxText) \cup {SpelledSentinel}
    ELSE SeqsUpTo(Alphabet, MaxText)

\* max_tokens counts the two reserved entries '' and '[UNK]'.
Caps == 2..MaxCap

\* The Unicode code point of a character; strings compare by it (in Python,
\* and as UTF-8 bytes in numpy).
CodePoint(c) ==
    CASE c = "\n" -> 10
      [] c = " " -> 32
      [] c = "<" -> 60
      [] c = ">" -> 62
      [] c = "a" -> 97
      [] c = "b" -> 98
      [] c = "e" -> 101
      [] c = "i" -> 105
      [] c = "l" -> 108
      [] c = "n" -> 110
      [] c = "w" -> 119
      [] c = "|" -> 124
      [] c = ZWNJ -> 8204

RECURSIVE StrLess(_, _)
StrLess(s, t) ==
    IF t = <<>> THEN FALSE
    ELSE IF s = <<>> THEN TRUE
    ELSE IF Head(s) = Head(t) THEN StrLess(Tail(s), Tail(t))
    ELSE CodePoint(Head(s)) < CodePoint(Head(t))

\* The orders in which a set, or the keys of a hash table, can be iterated.
RECURSIVE Enumerations(_)
Enumerations(S) ==
    IF S = {} THEN {<<>>}
    ELSE UNION {{<<x>> \o e : e \in Enumerations(S \ {x})} : x \in S}

RECURSIVE InsertChar(_, _)
InsertChar(c, chars) ==
    IF chars = <<>> THEN <<c>>
    ELSE IF CodePoint(Head(chars)) < CodePoint(c)
         THEN <<Head(chars)>> \o InsertChar(c, Tail(chars))
         ELSE <<c>> \o chars

\* sorted(...) of a list of characters.
unsorted(chars) == chars
RECURSIVE sorted(_)
sorted(chars) ==
    IF chars = <<>> THEN <<>> ELSE InsertChar(Head(chars), sorted(Tail(chars)))

\* StringLookup(vocabulary=vocabulary, mask_token=None).get_vocabulary().
StringLookupVocabulary(vocabulary) ==
    <<UNK>> \o [k \in 1..Len(vocabulary) |-> <<vocabulary[k]>>]

\* TextVectorization.adapt orders the tokens it counted by count, the larger
\* first, and tokens of equal count by the token itself, the larger first.
ByCountOnly(a, b, tokens) == Count(a, tokens) > Count(b, tokens)
Precedes(a, b, tokens) ==
    \/ Count(a, tokens) > Count(b, tokens)
    \/ Count(a, tokens) = Count(b, tokens) /\ StrLess(b, a)

RECURSIVE InsertToken(_, _, _)
InsertToken(tok, ordered, tokens) ==
    IF ordered = <<>> THEN <<tok>>
    ELSE IF Precedes(Head(ordered), tok, tokens)
         THEN <<Head(ordered)>> \o InsertToken(tok, Tail(ordered), tokens)
         ELSE <<tok>> \o ordered

\* The counted tokens, taken in the order export, put in vocabulary order.
RECURSIVE lexsort(_, _)
lexsort(export, tokens) ==
    IF export = <<>> THEN <<>>
    ELSE InsertToken(Head(export), lexsort(Tail(export), tokens), tokens)

\* Of the ordered tokens, those that find room beside the reserved entries.
KeptWithoutReserved(ordered, max_tokens) ==
    SubSeq(ordered, 1, IF Len(ordered) < max_tokens THEN Len(ordered) ELSE max_tokens)
Kept(ordered, max_tokens) ==
    SubSeq(ordered, 1,
           IF Len(ordered) < max_tokens - 2 THEN Len(ordered) ELSE max_tokens - 2)

\* text_vec.get_vocabulary() after text_vec.adapt.
TextVectorizationVocabulary(ordered, max_tokens) ==
    <<<<>>, UNK>> \o Kept(ordered, max_tokens)

\* ids_to_text (character level).
ids_to_text_chars(vocab, ids) ==
    strings_join([k \in 1..Len(ids) |-> ids_to_char(vocab, ids[k])], <<>>)

\* The characters of the texts.
Characters == Alphabet \cup Range(SpelledSentinel)

\* The character with code point code.
Chr(code) == CHOOSE c \in Characters : CodePoint(c) = code

\* The UTF-8 bytes of a character: one byte below U+0080, two below U+0800,
\* three below U+10000.
EncodeChar(c) ==
    LET code == CodePoint(c)
    IN  IF code < 128 THEN <<code>>
        ELSE IF code < 2048 THEN <<192 + (code \div 64), 128 + (code % 64)>>
        ELSE <<224 + (code \div 4096), 128 + ((code \div 64) % 64), 128 + (code % 64)>>

\* The UTF-8 bytes of a text: what the file of that text holds.
RECURSIVE utf8_encode(_)
utf8_encode(str) ==
    IF str = <<>> THEN <<>> ELSE EncodeChar(str[1]) \o utf8_encode(Tail(str))

\* Bytes that make a file invalid UTF-8: a byte that never occurs, a
\* continuation byte with no lead byte, a three-byte character cut short.
BadBytes == {<<255>>, <<128>>, <<226, 128>>}

\* The files: the encoding of every text, and files with bad bytes at the
\* start, in the middle or at the end.
Files(m) ==
    {utf8_encode(t) : t \in Texts(m)}
        \cup {utf8_encode(a) \o b \o utf8_encode(c) :
                 a \in SeqsUpTo(Alphabet, 1), b \in BadBytes, c \in SeqsUpTo(Alphabet, 1)}

\* The number of bytes of the character a lead byte begins; 0 for a byte
\* that cannot begin a character.
CharLength(b) ==
    IF b < 128 THEN 1
    ELSE IF b >= 194 /\ b <= 223 THEN 2
    ELSE IF b >= 224 /\ b <= 239 THEN 3
    ELSE IF b >= 240 /\ b <= 244 THEN 4
    ELSE 0

IsContinuation(b) == b >= 128 /\ b <= 191

\* The code point of one well-formed character of len bytes.
RECURSIVE DecodeChar(_, _)
DecodeChar(bytes, len) ==
    IF len = 1
    THEN (IF bytes[1] < 128 THEN bytes[1]
          ELSE IF bytes[1] < 224 THEN bytes[1] - 192
          ELSE IF bytes[1] < 240 THEN bytes[1] - 224
          ELSE bytes[1] - 240)
    ELSE DecodeChar(bytes, len - 1) * 64 + (bytes[len] - 128)

\* bytes.decode(encoding='utf-8', errors='ignore'): bad bytes are dropped.
RECURSIVE decode_ignore(_)
decode_ignore(bytes) ==
    IF bytes = <<>> THEN <<"ok", <<>>>>
    ELSE LET len == CharLength(bytes[1])
             well == /\ len > 0
                     /\ len <= Len(bytes)
                     /\ \A k \in 2..len : IsContinuation(bytes[k])
         IN  IF ~well THEN decode_ignore(Tail(bytes))
             ELSE <<"ok", <<Chr(DecodeChar(bytes, len))>>
                              \o decode_ignore(SubSeq(bytes, len + 1, Len(bytes)))[2]>>

\* bytes.decode(encoding='utf-8'): the text, or UnicodeDecodeError at the
\* first byte that is not part of a well-formed character.
RECURSIVE decode(_)
decode(bytes) ==
    IF bytes = <<>> THEN <<"ok", <<>>>>
    ELSE LET len == CharLength(bytes[1])
             well == /\ len > 0
                     /\ len <= Len(bytes)
                     /\ \A k \in 2..len : IsContinuation(bytes[k])
             rest == decode(SubSeq(bytes, len + 1, Len(bytes)))
         IN  IF ~well \/ rest[1] # "ok" THEN <<"UnicodeDecodeError">>
             ELSE <<"ok", <<Chr(DecodeChar(bytes, len))>> \o rest[2]>>

\* The corpus file is there; no cell has run.
PrepInit ==
    /\ mode \in {"char", "word"}
    /\ file \in Files(mode)
    /\ text = <<>>
    /\ MAX_TOKEN \in (IF mode = "word" THEN Caps ELSE {2})
    /\ prep = "start"
    /\ built = <<>>
    /\ decoded = <<>>
    /\ reencoded = <<>>
    /\ PipeIdle
    /\ GenIdle
    /\ RunIdle

\* text = read_text(path): the bytes of the file are decoded; bytes that are
\* not UTF-8 raise, and text is not assigned.
ReadText ==
    /\ prep = "start"
    /\ IF decode(file)[1] = "ok"
       THEN /\ text' = decode(file)[2]
            /\ prep' = "read"
       ELSE /\ text' = text
            /\ prep' = "error"
    /\ UNCHANGED <<file, MAX_TOKEN, built, decoded, reencoded>>
    /\ UNCHANGED runVars
    /\ UNCHANGED <<pipeVars, genVars>>

\* Character level: the zero-width non-joiner is taken out of the text.
StripZWNJ ==
    /\ mode = "char"
    /\ prep = "read"
    /\ text' = regex_replace(text, <<ZWNJ>>, <<>>)
    /\ prep' = "stripped"
    /\ UNCHANGED <<file, MAX_TOKEN, built, decoded, reencoded>>
    /\ UNCHANGED runVars
    /\ UNCHANGED <<pipeVars, genVars>>

\* The vocabulary is built, for the first time or again: sorted(set(text))
\* and the two StringLookup layers at the character level, text_vec.adapt at
\* the word level.
BuildVocabulary ==
    /\ prep \in {IF mode = "char" THEN "stripped" ELSE "read", "built"}
    /\ Len(built) < MaxBuilds
    /\ IF mode = "char"
       THEN \E order \in Enumerations(Range(text)) :
               get_vocabulary' = StringLookupVocabulary(sorted(order))
       ELSE LET tokens == SplitWhitespace(custom_standardization(text), <<>>)
            IN  \E export \in Enumerations(Range(tokens)) :
                   get_vocabulary' =
                       TextVectorizationVocabulary(lexsort(export, tokens), MAX_TOKEN)
    /\ built' = Append(built, get_vocabulary')
    /\ prep' = "built"
    /\ UNCHANGED <<file, text, MAX_TOKEN, decoded, reencoded>>
    /\ UNCHANGED runVars
    /\ UNCHANGED pipeVars
    /\ UNCHANGED <<temperature, prediction_mask, pc, runs, step_count, n, next_char,
                   states, result, predicted, raised, seed, drawn>>

\* text_to_ids = char_to_ids(list(text)); vectorizer(text) at the word level.
EncodeText ==
    /\ prep = "built"
    /\ text_to_ids' = Encode(mode, get_vocabulary, text)
    /\ prep' = "encoded"
    /\ UNCHANGED <<file, text, MAX_TOKEN, built, decoded, reencoded>>
    /\ UNCHANGED runVars
    /\ UNCHANGED <<mode, MAX_SEQ, BATCH_SIZE, SHUFFLE_BUFFER, epoch, it, pos, buffer,
                   cur, batches, cache, cached, pulled, shuffled, first>>
    /\ UNCHANGED genVars

\* ids_to_text(ids) on the ids of the text.
DecodeIds ==
    /\ prep = "encoded"
    /\ decoded' = IF mode = "char" THEN ids_to_text_chars(get_vocabulary, text_to_ids)
                  ELSE ids_to_text(get_vocabulary, text_to_ids)
    /\ prep' = "decoded"
    /\ UNCHANGED <<file, text, MAX_TOKEN, built, reencoded>>
    /\ UNCHANGED runVars
    /\ UNCHANGED <<pipeVars, genVars>>

\* The decoded text is turned into ids again.
Reencode ==
    /\ prep = "decoded"
    /\ reencoded' = Encode(mode, get_vocabulary, decoded)
    /\ prep' = "reencoded"
    /\ UNCHANGED <<file, text, MAX_TOKEN, built, decoded>>
    /\ UNCHANGED runVars
    /\ UNCHANGED <<pipeVars, genVars>>

PrepNext == ReadText \/ StripZWNJ \/ BuildVocabulary \/ EncodeText \/ DecodeIds \/ Reencode

PrepSpec == PrepInit /\ [][PrepNext]_vars

(***************************************************************************)
(* Claims about the windowing pipeline.                                    *)
(***************************************************************************)

\* Every window the pipeline holds: in the shuffle buffer, the cache, the
\* batch being assembled or an emitted batch.
Produced ==
    Range(pulled) \cup Range(buffer) \cup Range(cache) \cup Range(cur)
        \cup Range(Flatten(batches))

\* C1: in every window produced from any stream and any W >= 1, the target is
\* the input shifted by one: tgt[i] = in[i+1] for i < W, and tgt[W] is the
\* token that follows the last input token in the stream.
C1_TargetIsShiftedInput ==
    \A w \in Produced :
        /\ Len(w[1]) = MAX_SEQ
        /\ Len(w[2]) = MAX_SEQ
        /\ \A i \in 1..(MAX_SEQ - 1) : w[2][i] = w[1][i + 1]
        /\ \E p \in 1..(Len(text_to_ids) - MAX_SEQ) :
              /\ w[1] = SubSeq(text_to_ids, p, p + MAX_SEQ - 1)
              /\ w[2][MAX_SEQ] = text_to_ids[p + MAX_SEQ]

C1_Witness ==
    \E w \in Range(Flatten(batches)) :
        /\ Len(w[1]) = 2
        /\ w[1][1] # w[1][2]
        /\ w[2][2] # w[1][2]

\* C2: a stream of n ids gives floor(n / (W+1)) windows; the k-th is built
\* from the stream positions (k-1)*(W+1)+1 .. k*(W+1) (counting from 1), has W
\* input ids and W target ids, and the trailing n mod (W+1) ids are in no
\* window.
C2_ChunkCountAndPlace ==
    /\ \A k \in 1..Len(pulled) :
          /\ k * (MAX_SEQ + 1) <= Len(text_to_ids)
          /\ pulled[k][1] = SubSeq(text_to_ids, (k - 1) * (MAX_SEQ + 1) + 1,
                                   k * (MAX_SEQ + 1) - 1)
          /\ pulled[k][2] = SubSeq(text_to_ids, (k - 1) * (MAX_SEQ + 1) + 2,
                                   k * (MAX_SEQ + 1))
    /\ it = "end" => Len(pulled) = Len(text_to_ids) \div (MAX_SEQ + 1)

C2_Witness ==
    /\ it = "end"
    /\ mode = "char"
    /\ Len(pulled) = 2
    /\ Len(text_to_ids) % (MAX_SEQ + 1) = 1

\* The stream rebuilt from windows: each window's input followed by its last
\* target token.
RECURSIVE Reconstruct(_)
Reconstruct(ws) ==
    IF ws = <<>> THEN <<>>
    ELSE LET w == Head(ws)
         IN  w[1] \o (IF w[2] = <<>> THEN <<>> ELSE <<w[2][Len(w[2])]>>)
                  \o Reconstruct(Tail(ws))

\* C3: the windows of a pass, concatenated in production order, rebuild the
\* stream without its trailing n mod (W+1) tokens.
C3_ReconstructStream ==
    it = "end" =>
        Reconstruct(pulled) =
            SubSeq(text_to_ids, 1,
                   Len(text_to_ids) - (Len(text_to_ids) % (MAX_SEQ + 1)))

C3_Witness ==
    /\ it = "end"
    /\ mode = "word"
    /\ Len(pulled) = 2
    /\ pulled[1] # pulled[2]
    /\ Len(text_to_ids) % (MAX_SEQ + 1) = 1
    /\ Reconstruct(pulled) # text_to_ids

\* C4: only batches of exactly B windows are emitted, floor(m / B) of them for
\* m windows, at the character level and at the word level.
C4_OnlyFullBatches ==
    /\ \A b \in Range(batches) : Len(b) = BATCH_SIZE
    /\ it = "end" =>
          Len(batches) = (Len(text_to_ids) \div (MAX_SEQ + 1)) \div BATCH_SIZE

\* C5: a corpus of fewer than W+1 tokens gives no window, a corpus of fewer
\* than B windows gives no batch, and the pass ends normally.
C5_ShortCorpusNoBatch ==
    it = "end" =>
        /\ Len(text_to_ids) < MAX_SEQ + 1 => pulled = <<>> /\ batches = <<>>
        /\ Len(text_to_ids) \div (MAX_SEQ + 1) < BATCH_SIZE => batches = <<>>

\* C6: in both pipelines every window reaches the batches through a shuffle
\* buffer of at most S windows, which emits a permutation of the windows of
\* the pass, and the batches are filled in the order of emission.
C6_ShuffleBeforeBatch ==
    /\ Len(buffer) <= SHUFFLE_BUFFER
    /\ Flatten(batches) \o cur = shuffled
    /\ it = "end" => IsPermutation(shuffled, pulled)

\* Steps a running pass can still take: two per window not yet pulled (its
\* pull and its emission), one per buffered window, one for the end.
Remaining ==
    2 * (NumWindows - pos) + Len(buffer) + (IF it = "running" THEN 1 ELSE 0)

\* C7: a pass ends after finitely many steps and batches (a running pass can
\* always take a step, every step of it lowers Remaining, which is never
\* negative, and under the fairness of FairSpec the pass reaches its end); a
\* later pass yields the windows the first pass yielded; no step changes the
\* token stream.
C7_FiniteRestartable ==
    /\ [](it = "running" => ENABLED PassStep)
    /\ [](Remaining >= 0 /\ Len(batches) <= NumWindows)
    /\ [][it = "running" => Remaining' < Remaining]_vars
    /\ (it = "running") ~> (it = "end")
    /\ [](it = "end" /\ epoch > 1 => IsPermutation(Flatten(batches), first))
    /\ [][text_to_ids' = text_to_ids]_vars

C7_Witness ==
    /\ it = "end"
    /\ epoch = 2
    /\ Len(first) = 3
    /\ Flatten(batches) # first

(***************************************************************************)
(* Claims about the generation loop.                                       *)
(***************************************************************************)

\* The fragments the steps of this run returned, in the order of the draws.
Decoded == [k \in 1..Len(drawn) |-> Decode(mode, get_vocabulary, drawn[k])]

\* The id of '[UNK]' in the vocabulary list.
UnknownId == (CHOOSE i \in 1..Len(get_vocabulary) : get_vocabulary[i] = UNK) - 1

\* C8: whatever the scores and the temperature, the logit of the unknown id
\* handed to the draw is minus infinity (weight zero), and no step draws the
\* unknown id.
C8_UnknownNeverDrawn ==
    /\ \A k \in 1..Len(drawn) : drawn[k] # UnknownId
    /\ drawn # <<>> => predicted[UnknownId] = NegInf
    /\ pc \in {"Stepping", "Done"} => \A k \in 2..Len(result) : result[k] # UNK

C8_Witness ==
    /\ mode = "word"
    /\ Len(drawn) = 2
    /\ temperature = <<1, 2>>
    /\ predicted[UnknownId] = NegInf
    /\ \E i \in DOMAIN predicted : predicted[i] = <<4, 1>>
    /\ \E i \in DOMAIN predicted : predicted[i] = <<-2, 1>>

\* C9: within a run the cell moves Idle -> Stepping -> Done: only Start
\* leaves Idle, a step is taken only in Stepping and only while fewer than
\* step_count steps were taken, Done is entered when exactly step_count steps
\* were taken, and the join (the result) is made only in Done.
C9_IdleSteppingDone ==
    /\ [](pc \in {"Idle", "Stepping", "Done"})
    /\ [](pc = "Stepping" => n <= step_count /\ Len(drawn) = n)
    /\ [](pc = "Done" => n = step_count /\ Len(drawn) = step_count)
    /\ [][pc = "Idle" /\ pc' # "Idle" =>
             pc' = "Stepping" /\ n' = 0 /\ states' = None /\ result' = <<seed'>>]_vars
    /\ [][pc = "Stepping" /\ pc' # "Stepping" => pc' = "Done" /\ n = step_count]_vars
    /\ [][drawn' # drawn /\ drawn' # <<>> =>
             pc = "Stepping" /\ pc' = "Stepping" /\ n < step_count /\ n' = n + 1]_vars
    /\ [][pc = "Done" /\ pc' # "Done" =>
             pc' = "Idle" /\ result' = strings_join(result, JoinSeparator(mode))]_vars
    /\ [][pc # "Done" /\ pc' = pc => result' = result \/ drawn' # drawn]_vars

C9_Witness ==
    /\ pc = "Done"
    /\ step_count = 2
    /\ n = 2
    /\ runs = 2

\* C10: during a run the list of fragments is the seed followed by the
\* fragments of the ids drawn so far, in order, and a step only appends one
\* fragment; in Done there are step_count of them; the text the join returns
\* is the seed followed by these step_count fragments.
C10_SeedThenDrawnTokens ==
    /\ [](pc \in {"Stepping", "Done"} => result = <<seed>> \o Decoded)
    /\ [](pc = "Done" => Len(result) = 1 + step_count)
    /\ [](pc = "Idle" /\ runs > 0 =>
             /\ Len(drawn) = step_count
             /\ result = strings_join(<<seed>> \o Decoded, JoinSeparator(mode))
             /\ IsPrefix(seed, result))
    /\ [][pc = "Stepping" /\ pc' = "Stepping" /\ result' # result =>
             IsPrefix(result, result') /\ Len(result') = Len(result) + 1]_vars

C10_Witness ==
    /\ pc = "Idle"
    /\ runs > 0
    /\ mode = "char"
    /\ step_count = 2
    /\ result = <<"a", "b", "\n">>

\* C11: a run begun with step_count = 0 takes no step: while it is in Stepping
\* or Done nothing was drawn, the model was not called (the hidden state is
\* still None, no logits exist), nothing raised and the list of fragments is
\* the seed alone; the only step it can take from Stepping is the one into
\* Done, and it can take it; the text the join returns is the seed, unchanged.
C11_ZeroStepsReturnsSeed ==
    /\ [](step_count = 0 /\ pc \in {"Stepping", "Done"} =>
             /\ drawn = <<>>
             /\ states = None
             /\ predicted = <<>>
             /\ ~raised
             /\ result = <<seed>>)
    /\ [](step_count = 0 /\ pc = "Stepping" => ENABLED LoopExit /\ ~ENABLED Step)
    /\ [][step_count = 0 /\ pc = "Stepping" => pc' = "Done"]_vars
    /\ [](step_count = 0 /\ pc = "Idle" /\ runs > 0 =>
             result = seed /\ drawn = <<>> /\ states = None)

C11_Witness ==
    /\ pc = "Idle"
    /\ runs = 2
    /\ step_count = 0
    /\ mode = "word"
    /\ seed = <<" ", "a", " ">>
    /\ result = seed
    /\ states = None

\* The token of each drawn id as the text shows it: the newline sentinel as a
\* line break, any other token as itself.
Rendered ==
    [k \in 1..Len(drawn) |->
        IF get_vocabulary[drawn[k] + 1] = NEWLINE THEN <<"\n">>
        ELSE get_vocabulary[drawn[k] + 1]]

\* The strings one after the other, each one behind the separator.
RECURSIVE EachBehind(_, _)
EachBehind(strs, separator) ==
    IF strs = <<>> THEN <<>>
    ELSE separator \o Head(strs) \o EachBehind(Tail(strs), separator)

\* C12: the text of a finished run is the seed followed by the tokens drawn,
\* in order; at the word level exactly one space stands before each drawn
\* token (so exactly one between consecutive ones) and the newline sentinel
\* is shown as a line break; at the character level nothing stands between.
C12_JoinRule ==
    pc = "Idle" /\ runs > 0 =>
        /\ mode = "word" => result = seed \o EachBehind(Rendered, <<" ">>)
        /\ mode = "char" => result = seed \o EachBehind(Rendered, <<>>)

C12_Witness ==
    /\ pc = "Idle"
    /\ mode = "word"
    /\ seed = <<"z", " ", "a">>
    /\ drawn = <<3, 4>>
    /\ result = <<"z", " ", "a", " ", "\n", " ", "a">>

\* C13: with a temperature that is not positive no run begins: the cell stays
\* Idle, there is no hidden state and no list of fragments, and no forward
\* call or draw is made.
C13_NonPositiveTemperatureRejected ==
    temperature[1] <= 0 =>
        /\ pc = "Idle"
        /\ states = None
        /\ result = <<>>
        /\ drawn = <<>>
        /\ predicted = <<>>

\* C14: with a negative step count no run begins, and none ends as a run of
\* zero steps whose text is the seed.
C14_NegativeStepCountRejected ==
    step_count < 0 =>
        /\ pc = "Idle"
        /\ runs = 0
        /\ result # seed

\* The tokens of the seed: its characters, or its standardized words.
SeedTokens ==
    IF mode = "char" THEN unicode_split(seed)
    ELSE SplitWhitespace(custom_standardization(seed), <<>>)

Known(tok) == \E i \in 1..Len(get_vocabulary) : get_vocabulary[i] = tok

\* C15: a seed with a token the vocabulary does not hold is encoded without
\* failure: the first step of the run can be taken, does not raise, calls the
\* model and draws an id; the ids the model consumed for the seed are, token
\* by token, the token's id when the vocabulary holds it and the unknown id
\* when not; the mask forbids the unknown id to the draw (minus infinity)
\* while the same id is accepted as input.
C15_UnknownTokenEncodes ==
    /\ [](pc = "Stepping" /\ ~raised /\ n = 0 /\ step_count > 0
             /\ SeedTokens # <<>> => ENABLED Step)
    /\ [][pc = "Stepping" /\ n = 0 /\ SeedTokens # <<>>
             /\ (\E k \in 1..Len(SeedTokens) : ~Known(SeedTokens[k]))
             /\ (n' # n \/ raised' # raised) =>
                /\ ~raised'
                /\ n' = 1
                /\ Len(drawn') = 1
                /\ states' # None]_vars
    /\ [](pc \in {"Stepping", "Done"} /\ n >= 1 =>
             /\ Len(Consumed(states)) >= Len(SeedTokens)
             /\ \A k \in 1..Len(SeedTokens) :
                   Consumed(states)[k] =
                       IF Known(SeedTokens[k])
                       THEN (CHOOSE i \in 1..Len(get_vocabulary) :
                                get_vocabulary[i] = SeedTokens[k]) - 1
                       ELSE UnknownId)
    /\ [](prediction_mask[UnknownId] = NegInf)

C15_Witness ==
    /\ pc = "Done"
    /\ mode = "word"
    /\ seed = <<"z", " ", "a">>
    /\ n = 2
    /\ ~raised
    /\ SubSeq(Consumed(states), 1, 2) = <<1, 4>>
    /\ prediction_mask[1] = NegInf
    /\ Len(drawn) = 2

\* The two mappings as the notebooks have them: char_to_ids and ids_to_char
\* at the character level; text_vec and text_vec.get_vocabulary()[idx] at the
\* word level.
token_to_id(tok) ==
    IF mode = "char" THEN char_to_ids(get_vocabulary, <<tok>>)
    ELSE text_vec(get_vocabulary, tok)

id_to_token(i) ==
    IF mode = "char" THEN ids_to_char(get_vocabulary, i) ELSE get_vocabulary[i + 1]

\* The ids a run has used: those the model consumed and those drawn.
UsedIds == Range(Consumed(states)) \cup Range(drawn)

\* C16: every id the encoding produced or the draw returned is an id of the
\* vocabulary, and on each of them the two mappings are inverse: the token of
\* the id has that id, and the token of that id is the same token again.
C16_ExactInverses ==
    \A i \in UsedIds :
        /\ i \in Ids(get_vocabulary)
        /\ token_to_id(id_to_token(i)) = <<i>>
        /\ \A j \in Range(token_to_id(id_to_token(i))) : id_to_token(j) = id_to_token(i)

(***************************************************************************)
(* Claims about the vocabulary and the encoding of text.                   *)
(***************************************************************************)

\* The tokens of a string: its characters, or its standardized words.
TokensOf(str) ==
    IF mode = "char" THEN unicode_split(str)
    ELSE SplitWhitespace(custom_standardization(str), <<>>)

\* C17: when every token of the text is in the vocabulary, the text decoded
\* from its ids has the same tokens as the text (at the character level it
\* is the text), and its ids are the ids of the text again; at the word level
\* this holds with the line delimiter '|' and the newline sentinel among the
\* tokens.
C17_RoundTrip ==
    (/\ prep \in {"decoded", "reencoded"}
     /\ \A k \in 1..Len(TokensOf(text)) : Known(TokensOf(text)[k])) =>
        /\ TokensOf(decoded) = TokensOf(text)
        /\ mode = "char" => decoded = text
        /\ prep = "reencoded" => reencoded = text_to_ids

\* C18: at the character level the vocabulary list is '[UNK]' at id 0
\* followed by the distinct characters of the text without U+200C, in
\* ascending order of code point: its size is the number of distinct
\* characters plus one, and the character at place i of the sorted list
\* (counted from 0) has id i + 1.  From "aab": '[UNK]', 'a', 'b', size 3.
C18_CharVocabulary ==
    mode = "char" /\ prep \in {"built", "encoded", "decoded", "reencoded"} =>
        /\ get_vocabulary[1] = UNK
        /\ char_to_ids(get_vocabulary, <<UNK>>) = <<0>>
        /\ Len(get_vocabulary) = Cardinality(Range(text)) + 1
        /\ {get_vocabulary[k] : k \in 2..Len(get_vocabulary)} = {<<c>> : c \in Range(text)}
        /\ <<ZWNJ>> \notin Range(get_vocabulary)
        /\ \A j, k \in 2..Len(get_vocabulary) :
              j < k => CodePoint(get_vocabulary[j][1]) < CodePoint(get_vocabulary[k][1])
        /\ \A i \in 0..(Len(get_vocabulary) - 2) :
              char_to_ids(get_vocabulary, <<get_vocabulary[i + 2]>>) = <<i + 1>>

C18_Witness ==
    /\ mode = "char"
    /\ prep = "built"
    /\ text = <<"a", "a", "b">>
    /\ get_vocabulary = <<UNK, <<"a">>, <<"b">>>>
    /\ Len(get_vocabulary) = 3

\* The standardized words of the corpus text.
Words == SplitWhitespace(custom_standardization(text), <<>>)

\* C19: at the word level, whatever the text, id 0 is the empty token and
\* id 1 is '[UNK]'; the list never has more than MAX_TOKEN entries, these two
\* included, and lacks a word of the text only when it is full; the entries
\* from id 2 on are distinct words of the text, none less frequent than a
\* later one or than a word left out; a word left out has the id 1.
C19_WordVocabulary ==
    mode = "word" /\ prep \in {"built", "encoded", "decoded", "reencoded"} =>
        /\ get_vocabulary[1] = <<>>
        /\ get_vocabulary[2] = UNK
        /\ Len(get_vocabulary) <= MAX_TOKEN
        /\ Len(get_vocabulary) < MAX_TOKEN => Range(Words) \subseteq Range(get_vocabulary)
        /\ \A k \in 3..Len(get_vocabulary) : get_vocabulary[k] \in Range(Words)
        /\ \A j, k \in 1..Len(get_vocabulary) :
              j < k => get_vocabulary[j] # get_vocabulary[k]
        /\ \A j, k \in 3..Len(get_vocabulary) :
              j < k => Count(get_vocabulary[j], Words) >= Count(get_vocabulary[k], Words)
        /\ \A w \in Range(Words) \ Range(get_vocabulary) :
              /\ \A k \in 3..Len(get_vocabulary) :
                    Count(get_vocabulary[k], Words) >= Count(w, Words)
              /\ text_vec(get_vocabulary, w) = <<1>>
        /\ prep # "built" =>
              \A k \in 1..Len(Words) :
                  Words[k] \notin Range(get_vocabulary) => text_to_ids[k] = 1

C19_Witness ==
    /\ mode = "word"
    /\ prep = "encoded"
    /\ text = <<"a", "|", "a">>
    /\ MAX_TOKEN = 3
    /\ get_vocabulary = <<<<>>, UNK, <<"a">>>>
    /\ text_to_ids = <<2, 1, 2>>

\* C20: every time the vocabulary is built from the same text, at either
\* level and in whatever order the set of characters or the table of counted
\* words is iterated, the list is the same, so each token has the same id;
\* this holds when words of the text have equal counts.
C20_RebuildSameVocabulary ==
    /\ \A j, k \in 1..Len(built) : built[j] = built[k]
    /\ built # <<>> => get_vocabulary = built[1]
    /\ \A j \in 1..Len(built) : \A w \in Range(TokensOf(text)) :
          Encode(mode, built[j], w) = Encode(mode, get_vocabulary, w)

C20_Witness ==
    /\ mode = "word"
    /\ Len(built) = 2
    /\ text = <<"a", " ", "b">>
    /\ Count(<<"a">>, Words) = Count(<<"b">>, Words)
    /\ built[2] = <<<<>>, UNK, <<"b">>, <<"a">>>>
    /\ built[1] = built[2]

(***************************************************************************)
(* Claims about two loops side by side.                                    *)
(***************************************************************************)

AloneFragment(s, d, k) ==
    IF k = 1 THEN s ELSE Decode(mode, get_vocabulary, d[k - 1])

\* The ids a loop running alone from seed s has consumed after the draws d.
RECURSIVE AloneConsumed(_, _)
AloneConsumed(s, d) ==
    IF d = <<>> THEN <<>>
    ELSE AloneConsumed(s, SubSeq(d, 1, Len(d) - 1))
             \o Encode(mode, get_vocabulary, AloneFragment(s, d, Len(d)))

\* The list of fragments of a loop running alone from seed s with draws d.
AloneResult(s, d) ==
    <<s>> \o [k \in 1..Len(d) |-> Decode(mode, get_vocabulary, d[k])]

\* The logits lg divided by the temperature, with the mask added.
AloneScaled(lg) ==
    [i \in Ids(get_vocabulary) |-> Add(Divide(lg[i], temperature), prediction_mask[i])]

\* C23: with the steps of two loops taken in any order on the same model
\* and the same sampler, each loop's hidden state, next fragment, logits and
\* result are those of that loop running alone from its seed with its draws.
C23_LoopsDoNotInterfere ==
    \A r \in RunIds :
        run[r].begun =>
            LET s == run[r].seed
                d == run[r].drawn
                alone == AloneResult(s, d)
            IN  /\ Consumed(run[r].states) = AloneConsumed(s, d)
                /\ run[r].states = None <=> d = <<>>
                /\ run[r].n = Len(d)
                /\ run[r].next_char = alone[Len(alone)]
                /\ run[r].pc \in {"Stepping", "Done"} => run[r].result = alone
                /\ run[r].pc = "Idle" =>
                       run[r].result = strings_join(alone, JoinSeparator(mode))
                /\ d # <<>> =>
                       run[r].predicted = AloneScaled(Logits(weights, AloneConsumed(s, d)))

C23_Witness ==
    /\ run[1].pc = "Idle"
    /\ run[2].pc = "Idle"
    /\ run[1].begun
    /\ run[2].begun
    /\ run[1].seed # run[2].seed
    /\ Len(run[1].drawn) = 2
    /\ Len(run[2].drawn) = 2
    /\ run[1].drawn # run[2].drawn
    /\ run[1].result # run[2].result

\* a < b for two finite scores.
Below(a, b) == a[1] * b[2] < b[1] * a[2]

\* The scores p drawn from keep the raw scores and their order at every id
\* but the unknown one, which is excluded.
ScoresKept(raw, p) ==
    /\ p[UnknownId] = NegInf
    /\ temperature = <<1, 1>> =>
           \A i \in DOMAIN p \ {UnknownId} : p[i] = <<raw[i], 1>>
    /\ \A i, j \in DOMAIN p \ {UnknownId} :
           /\ raw[i] < raw[j] <=> Below(p[i], p[j])
           /\ raw[i] = raw[j] <=> p[i] = p[j]
    /\ \A i \in DOMAIN p \ {UnknownId} :
           (\A j \in DOMAIN p \ {UnknownId} : raw[j] <= raw[i]) =>
               /\ i \in Categorical(p)
               /\ \A j \in DOMAIN p \ {UnknownId} : ~Below(p[i], p[j])

\* C25: with temperature 1 the scores the draw is made from are the model's
\* own scores at every id but the unknown one; with any temperature > 0 they
\* are in the same order as the model's scores, so the highest-scoring token
\* other than the unknown one is still the highest and can be drawn.
C25_ScalingKeepsOrder ==
    \A r \in RunIds :
        run[r].drawn # <<>> =>
            ScoresKept(Logits(weights, Consumed(run[r].states)), run[r].predicted)

C25_Witness ==
    /\ mode = "word"
    /\ temperature = <<1, 2>>
    /\ run[1].n = 2
    /\ run[1].predicted[UnknownId] = NegInf
    /\ \E i \in DOMAIN run[1].predicted : run[1].predicted[i] = <<4, 1>>
    /\ \E i \in DOMAIN run[1].predicted : run[1].predicted[i] = <<-2, 1>>
    /\ run[2].n = 1

(***************************************************************************)
(* Claims about the generation loop's hidden state, seed and scores.       *)
(***************************************************************************)

\* C22: every run of the generation cell begins with states = None, also a
\* run after an earlier one; a step that completes replaces states by the
\* state the model returns for that step's ids on top of the state the
\* previous step left; nothing else changes states within a run.
C22_HiddenStateCarried ==
    [][/\ (pc = "Idle" /\ pc' = "Stepping") => states' = None
       /\ n' = n + 1 =>
             /\ states' # None
             /\ Consumed(states') =
                    Consumed(states) \o Encode(mode, get_vocabulary, next_char)
             /\ n = 0 => states = None
       /\ (pc = "Stepping" /\ n' = n) => states' = states]_vars

C22_Witness ==
    /\ runs = 2
    /\ pc = "Stepping"
    /\ n = 2
    /\ seed = <<"z", "b">>
    /\ Len(Consumed(states)) = 3

\* C24: a run with the empty seed and step_count >= 1 takes all its steps
\* without failing, the first step included, and returns one token per step.
C24_EmptySeedCompletes ==
    (seed = <<>> /\ step_count >= 1 /\ pc \in {"Stepping", "Done"}) =>
        /\ ~raised
        /\ pc = "Done" => Len(drawn) = step_count

\* C27: once the sampler is built, no run, step, loop exit or join changes
\* the vocabulary list (so no token's id), the prediction mask or the
\* temperature, also when the seed holds a token outside the vocabulary;
\* the mask is 0 at every id but the unknown one, and the score of such an id
\* reaches the draw as the model's score divided by the temperature.
C27_SamplerUnchanged ==
    /\ [][/\ get_vocabulary' = get_vocabulary
          /\ prediction_mask' = prediction_mask
          /\ temperature' = temperature]_vars
    /\ [](/\ get_vocabulary = Vocabulary(mode)
          /\ DOMAIN prediction_mask = Ids(get_vocabulary)
          /\ \A i \in Ids(get_vocabulary) \ {UnknownId} : prediction_mask[i] = Zero
          /\ drawn # <<>> =>
                \A i \in Ids(get_vocabulary) \ {UnknownId} :
                    \E x \in Scores : predicted[i] = Divide(x, temperature))

C27_Witness ==
    /\ mode = "word"
    /\ runs = 2
    /\ pc = "Done"
    /\ seed = <<"z", " ", "a">>
    /\ Encode(mode, get_vocabulary, seed)[1] = UnknownId
    /\ Len(drawn) = 2
    /\ prediction_mask[0] = Zero
    /\ prediction_mask[UnknownId] = NegInf

\* C29: after n >= 1 steps of a run the ids consumed through the hidden
\* state are the ids of the seed followed by the first n - 1 drawn ids, the
\* fragment to be fed to the next step encodes to exactly the id drawn last,
\* and no step has raised; for every id the draw can give.
C29_EachDrawnIdFedBackOnce ==
    (pc \in {"Stepping", "Done"} /\ n >= 1) =>
        /\ Consumed(states) =
               Encode(mode, get_vocabulary, seed) \o SubSeq(drawn, 1, n - 1)
        /\ Encode(mode, get_vocabulary, next_char) = <<drawn[n]>>
        /\ ~raised

\* Every call of the model made by a step returns: no run stays for ever
\* with a step to take (a step is taken only by a call that returns, and
\* until then the run has that step to take).
ForwardCallsReturn == []<>(~(pc = "Stepping" /\ n < step_count))

WellFormedAt(i) ==
    \/ file[i] < 128
    \/ file[i] = 226 /\ i + 2 <= Len(file) /\ file[i + 1] = 128 /\ file[i + 2] = 140
    \/ file[i] = 128 /\ i > 1 /\ i < Len(file) /\ file[i - 1] = 226 /\ file[i + 1] = 140
    \/ file[i] = 140 /\ i > 2 /\ file[i - 2] = 226 /\ file[i - 1] = 128

\* The file holds the UTF-8 encoding of some text.
ValidFile == \A i \in 1..Len(file) : WellFormedAt(i)

\* C26: a file that is not valid UTF-8 makes the read fail: the failure is
\* final (no cell runs after it, the read is not tried again), and no text,
\* vocabulary, ids or window exists then; every later phase is reached only
\* from a valid file.
C26_DecodeErrorStopsLoading ==
    /\ prep = "error" =>
           /\ ~ValidFile
           /\ text = <<>>
           /\ get_vocabulary = <<>>
           /\ built = <<>>
           /\ text_to_ids = <<>>
           /\ PipeIdle
           /\ ~ENABLED PrepNext
    /\ prep \notin {"start", "error"} => ValidFile
    /\ (prep = "start" /\ ~ValidFile) => text = <<>> /\ built = <<>>

C26_Witness ==
    /\ prep = "error"
    /\ file = <<97, 226, 128>>
    /\ text = <<>>

\* The token a delimiter character of the corpus becomes.
DelimiterToken(c) == IF c = "|" THEN <<"|">> ELSE NEWLINE

IsDelimiter(c) == c \in {"|", "\n"}

IsDelimiterToken(tok) == tok \in {<<"|">>, NEWLINE}

\* The delimiter tokens of the corpus text, in its order.
DelimitersOf(str) ==
    LET kept == SelectSeq(str, IsDelimiter)
    IN  [k \in 1..Len(kept) |-> DelimiterToken(kept[k])]

\* C28: no entry of a vocabulary built from the text holds U+200C, and no id
\* of the text's id sequence stands for a token that holds it.  At the word
\* level the delimiter tokens among the tokens of the text are exactly the
\* '|' and newline characters of the text, one token each and in the text's
\* order, and each token has its own place in the id sequence, with its own
\* id when the vocabulary holds it.
C28_Normalization ==
    /\ \A j \in 1..Len(built) : \A i \in 1..Len(built[j]) : ZWNJ \notin Range(built[j][i])
    /\ (mode = "char" /\ prep \notin {"none", "start", "read", "error"}) =>
           ZWNJ \notin Range(text)
    /\ prep \in {"encoded", "decoded", "reencoded"} =>
           /\ \A k \in 1..Len(text_to_ids) :
                  ZWNJ \notin Range(get_vocabulary[text_to_ids[k] + 1])
           /\ mode = "word" =>
                  /\ SelectSeq(Words, IsDelimiterToken) = DelimitersOf(text)
                  /\ Len(text_to_ids) = Len(Words)
                  /\ \A k \in 1..Len(Words) :
                         Words[k] \in Range(get_vocabulary) =>
                             get_vocabulary[text_to_ids[k] + 1] = Words[k]

C28_Witness ==
    /\ mode = "word"
    /\ prep = "encoded"
    /\ text = <<"|", ZWNJ, "\n">>
    /\ Len(text_to_ids) = 2
    /\ get_vocabulary[text_to_ids[1] + 1] = <<"|">>
    /\ get_vocabulary[text_to_ids[2] + 1] = NEWLINE

====
